---- MODULE Spec2Model ----
(***************************************************************************)
(* A model of pyasar's AsarArchive (src/asar/archive.py): open() parses    *)
(* the length-prefixed JSON header of an archive file, extract() walks the *)
(* header tree and recreates it under a destination, __exit__ releases the *)
(* read handle.  The archive is a sequence of bytes, the filesystem a      *)
(* function from canonical locations to nodes, and extract() is a stack    *)
(* machine with one step per directory entered, per entry visited and per  *)
(* directory left.                                                         *)
(***************************************************************************)
EXTENDS Integers, Sequences, FiniteSets, TLC

VARIABLES
    archive,    \* the bytes of the archive file on disk
    given,      \* how the archive file was built: header length, untruncated
    fs,         \* the filesystem but for the archive: canonical location -> node
    osfile,     \* the file object open() created: state, cursor, close calls
    handle,     \* the AsarArchive instance, or NoHandle
    pc,         \* "start", "idle", "extracting", or "dead" once open() raised
    stack,      \* the frames of __extract_directory, innermost last
    err,        \* the exception the last operation raised, "" for none
    errAt,      \* the relative path of the entry that raised it
    lastOp,     \* the last operation that returned or raised
    nops,       \* operations called on the handle so far
    pre,        \* the state extract() was called in
    written,    \* files written by the running/last extract: [rel, at]
    made,       \* directories created by the running/last extract
    warned,     \* relative paths LOGGER.warn reported
    reads,      \* reads of the archive blob: [rel, pos, n]
    copied      \* sidecar copies: [rel, src, data]

vars == <<archive, given, fs, osfile, handle, pc, stack, err, errAt,
          lastOp, nops, pre, written, made, warned, reads, copied>>

-----------------------------------------------------------------------------
(* Bounds of the model.                                                    *)

\* nesting depth of the deepest header tree
MaxDepth == 3
\* bytes of trailing whitespace after the JSON document in the header
MaxPad == 1
\* operations (extract, release) called after open
MaxOps == 3

-----------------------------------------------------------------------------
(* Sequences and bytes.                                                    *)

Min(a, b) == IF a < b THEN a ELSE b

Front(s) == SubSeq(s, 1, Len(s) - 1)

Last(s) == s[Len(s)]

RECURSIVE Repeat(_, _)
Repeat(b, n) == IF n <= 0 THEN <<>> ELSE <<b>> \o Repeat(b, n - 1)

\* struct.pack('I', n) on a little-endian build
PackU32(n) ==
    << n % 256, (n \div 256) % 256, (n \div 65536) % 256, (n \div 16777216) % 256 >>

\* struct.unpack('I', b)[0]
UnpackU32(b) == b[1] + 256 * b[2] + 65536 * b[3] + 16777216 * b[4]

-----------------------------------------------------------------------------
(* Paths.  A path is what os.path.join builds: a flag for a leading '/'    *)
(* and the components between separators.  A canonical location is the     *)
(* sequence of names from the root to a node.                              *)

Names == {"a", "b", "c", "u", "x", "sec", "..", "/sec", "s/t"}

NameOrder == <<"a", "b", "c", "u", "x", "sec", "..", "/sec", "s/t">>

NamePath(n) ==
    CASE n = "/sec" -> [abs |-> TRUE, comps |-> <<"sec">>]
      [] n = "s/t"  -> [abs |-> FALSE, comps |-> <<"s", "t">>]
      [] OTHER      -> [abs |-> FALSE, comps |-> <<n>>]

\* the path '.'
CurDir == [abs |-> FALSE, comps |-> <<".">>]

\* os.path.join(a, b): an absolute b discards a
Join(a, b) ==
    IF b.abs THEN b ELSE [abs |-> a.abs, comps |-> a.comps \o b.comps]

Parent(loc) == IF loc = <<>> THEN <<>> ELSE Front(loc)

IsPrefix(s, t) == Len(s) <= Len(t) /\ SubSeq(t, 1, Len(s)) = s

-----------------------------------------------------------------------------
(* The filesystem.                                                         *)

DirNode == [kind |-> "dir"]

FileNode(d) == [kind |-> "file", data |-> d]

IsDirAt(f, loc) == loc \in DOMAIN f /\ f[loc].kind = "dir"

IsFileAt(f, loc) == loc \in DOMAIN f /\ f[loc].kind = "file"

Put(f, loc, node) == [l \in DOMAIN f \cup {loc} |-> IF l = loc THEN node ELSE f[l]]

\* the kernel's path walk from the root (the working directory is the root)
RECURSIVE Walk(_, _, _)
Walk(f, cur, comps) ==
    IF comps = <<>> THEN [ok |-> TRUE, at |-> cur, err |-> ""]
    ELSE IF ~IsDirAt(f, cur)
         THEN [ok |-> FALSE, at |-> cur,
               err |-> IF cur \in DOMAIN f THEN "NotADirectoryError"
                                           ELSE "FileNotFoundError"]
    ELSE LET c == Head(comps)
             nxt == IF c = "." THEN cur
                    ELSE IF c = ".." THEN Parent(cur)
                    ELSE Append(cur, c)
         IN Walk(f, nxt, Tail(comps))

Resolve(f, p) == Walk(f, <<>>, p.comps)

\* os.path.exists(p)
PathExists(f, p) == LET r == Resolve(f, p) IN r.ok /\ r.at \in DOMAIN f

\* os.path.isdir(p)
PathIsDir(f, p) == LET r == Resolve(f, p) IN r.ok /\ IsDirAt(f, r.at)

\* os.mkdir(p)
Mkdir(f, p) ==
    LET r == Resolve(f, p) IN
    IF ~r.ok THEN [fs |-> f, err |-> r.err, new |-> {}]
    ELSE IF r.at \in DOMAIN f THEN [fs |-> f, err |-> "FileExistsError", new |-> {}]
    ELSE [fs |-> Put(f, r.at, DirNode), err |-> "", new |-> {r.at}]

\* os.makedirs(p): split off the last component, create the head first when
\* it is missing (a FileExistsError of the recursion is swallowed), stop
\* when the tail is '.', then mkdir(p)
RECURSIVE Makedirs(_, _)
Makedirs(f, p) ==
    LET head == [abs |-> p.abs, comps |-> Front(p.comps)]
        tail == Last(p.comps)
    IN  IF Len(p.comps) > 1 /\ ~PathExists(f, head)
        THEN LET h == Makedirs(f, head) IN
             IF h.err \notin {"", "FileExistsError"} THEN h
             ELSE IF tail = "." THEN [h EXCEPT !.err = ""]
             ELSE LET m == Mkdir(h.fs, p) IN
                  [fs |-> m.fs, err |-> m.err, new |-> h.new \cup m.new]
        ELSE Mkdir(f, p)

\* open(p, 'wb') followed by write(data)
WriteFile(f, p, data) ==
    LET r == Resolve(f, p) IN
    IF ~r.ok THEN [fs |-> f, err |-> r.err, at |-> <<>>]
    ELSE IF IsDirAt(f, r.at) THEN [fs |-> f, err |-> "IsADirectoryError", at |-> <<>>]
    ELSE [fs |-> Put(f, r.at, FileNode(data)), err |-> "", at |-> r.at]

\* copyfile with a copy loop that drops the last byte
CopyFileShort(f, src, dst) ==
    LET s == Resolve(f, src)
        d == Resolve(f, dst)
    IN  IF ~(s.ok /\ s.at \in DOMAIN f)
        THEN [fs |-> f, err |-> "FileNotFoundError", at |-> <<>>, data |-> <<>>]
        ELSE IF d.ok /\ d.at = s.at
        THEN [fs |-> f, err |-> "SameFileError", at |-> <<>>, data |-> <<>>]
        ELSE IF IsDirAt(f, s.at)
        THEN [fs |-> f, err |-> "IsADirectoryError", at |-> <<>>, data |-> <<>>]
        ELSE LET w == WriteFile(f, dst, Front(f[s.at].data)) IN
             [fs |-> w.fs, err |-> w.err, at |-> w.at, data |-> Front(f[s.at].data)]

\* shutil.copyfile(src, dst)
CopyFile(f, src, dst) ==
    LET s == Resolve(f, src)
        d == Resolve(f, dst)
    IN  IF ~(s.ok /\ s.at \in DOMAIN f)
        THEN [fs |-> f, err |-> "FileNotFoundError", at |-> <<>>, data |-> <<>>]
        ELSE IF d.ok /\ d.at = s.at
        THEN [fs |-> f, err |-> "SameFileError", at |-> <<>>, data |-> <<>>]
        ELSE IF IsDirAt(f, s.at)
        THEN [fs |-> f, err |-> "IsADirectoryError", at |-> <<>>, data |-> <<>>]
        ELSE LET w == WriteFile(f, dst, f[s.at].data) IN
             [fs |-> w.fs, err |-> w.err, at |-> w.at, data |-> f[s.at].data]

-----------------------------------------------------------------------------
(* Header trees.  A node with a 'files' member is a directory, any other   *)
(* node is a file; a file without 'offset' is stored outside the archive.  *)

Dir(m) == [files |-> m]

Packed(o, s) == [size |-> s, offset |-> o]

Unpacked(s) == [size |-> s]

\* nested directories 'a' down to the given depth, an empty directory 'c'
\* beside each, an unpacked and a packed file at the bottom
RECURSIVE Nest(_)
Nest(k) ==
    IF k = 0 THEN Dir("u" :> Unpacked(1) @@ "b" :> Packed("2", 1))
    ELSE Dir("a" :> Nest(k - 1) @@ "c" :> Dir(<<>>))

TwoFiles == Dir("a" :> Packed("0", 1) @@ "b" :> Packed("1", 2))

\* child names that are '..', hold a separator or are absolute
Escaping ==
    Dir(".." :> Dir("sec" :> Unpacked(1) @@ "x" :> Packed("0", 3))
        @@ "/sec" :> Dir(<<>>)
        @@ "s/t" :> Dir(<<>>))

AbsoluteDir == Dir("/sec" :> Dir("x" :> Packed("0", 3)))

\* a child name that holds a separator and stays below its directory
SeparatorDir == Dir("s/t" :> Dir("b" :> Packed("2", 1)))

Trees ==
    {Nest(k) : k \in 0..MaxDepth} \cup {TwoFiles, Escaping, AbsoluteDir, SeparatorDir}

\* the packed content that follows the header
Blob == <<65, 66, 67>>

\* every node below a directory's child mapping, with its relative path
RECURSIVE Entries(_, _)
Entries(files, path) ==
    UNION { LET p == Join(path, NamePath(n)) IN
            {[path |-> p, node |-> files[n]]}
            \cup (IF "files" \in DOMAIN files[n]
                  THEN Entries(files[n].files, p) ELSE {})
          : n \in DOMAIN files }

IsDirEntry(e) == "files" \in DOMAIN e.node

IsPackedEntry(e) == ~IsDirEntry(e) /\ "offset" \in DOMAIN e.node

IsUnpackedEntry(e) == ~IsDirEntry(e) /\ "offset" \notin DOMAIN e.node

-----------------------------------------------------------------------------
(* The header text.  One byte stands for one JSON token: '{' and '}', the  *)
(* keys files (F), size (S) and offset (O), a digit, or a child name.      *)

NameCode(n) ==
    CASE n = "a" -> 97 [] n = "b" -> 98 [] n = "c" -> 99 [] n = "u" -> 117
      [] n = "x" -> 120 [] n = "sec" -> 115 [] n = ".." -> 46
      [] n = "/sec" -> 47 [] n = "s/t" -> 116

Digits == <<"0", "1", "2", "3", "4", "5", "6", "7", "8", "9">>

\* int(s) of a decimal digit string
StrToInt(s) == (CHOOSE i \in 1..10 : Digits[i] = s) - 1

IsDigitCode(b) == b >= 48 /\ b <= 57

IsSpace(b) == b = 32

RECURSIVE Render(_)
RECURSIVE RenderItems(_, _)
\* json.dumps of a node
Render(node) ==
    IF "files" \in DOMAIN node
    THEN <<123, 70, 123>> \o RenderItems(node.files, NameOrder) \o <<125, 125>>
    ELSE <<123, 83, 48 + node.size>>
         \o (IF "offset" \in DOMAIN node
             THEN <<79, 48 + StrToInt(node.offset)>> ELSE <<>>)
         \o <<125>>

RenderItems(files, order) ==
    IF order = <<>> THEN <<>>
    ELSE (IF Head(order) \in DOMAIN files
          THEN <<NameCode(Head(order))>> \o Render(files[Head(order)])
          ELSE <<>>)
         \o RenderItems(files, Tail(order))

ParseFail == [ok |-> FALSE, node |-> <<>>, next |-> 0]

At(t, i) == IF i >= 1 /\ i <= Len(t) THEN t[i] ELSE -1

RECURSIVE ParseValue(_, _)
RECURSIVE ParseItems(_, _, _)
\* the JSON decoder on one value starting at byte i
ParseValue(t, i) ==
    IF At(t, i) # 123 THEN ParseFail
    ELSE IF At(t, i + 1) = 70 /\ At(t, i + 2) = 123
    THEN LET r == ParseItems(t, i + 3, <<>>) IN
         IF r.ok /\ At(t, r.next) = 125 /\ At(t, r.next + 1) = 125
         THEN [ok |-> TRUE, node |-> [files |-> r.node], next |-> r.next + 2]
         ELSE ParseFail
    ELSE IF At(t, i + 1) = 83 /\ IsDigitCode(At(t, i + 2))
    THEN LET size == At(t, i + 2) - 48 IN
         IF At(t, i + 3) = 79 /\ IsDigitCode(At(t, i + 4)) /\ At(t, i + 5) = 125
         THEN [ok |-> TRUE,
               node |-> [size |-> size, offset |-> Digits[At(t, i + 4) - 47]],
               next |-> i + 6]
         ELSE IF At(t, i + 3) = 125
         THEN [ok |-> TRUE, node |-> [size |-> size], next |-> i + 4]
         ELSE ParseFail
    ELSE ParseFail

\* the members of an object: name, value, name, value, ... up to '}'
ParseItems(t, i, acc) ==
    IF \E n \in Names : NameCode(n) = At(t, i)
    THEN LET n == CHOOSE m \in Names : NameCode(m) = At(t, i)
             v == ParseValue(t, i + 1)
         IN  IF v.ok THEN ParseItems(t, v.next, (n :> v.node) @@ acc)
             ELSE ParseFail
    ELSE [ok |-> TRUE, node |-> acc, next |-> i]

RECURSIVE SkipSpace(_, _)
SkipSpace(t, i) == IF IsSpace(At(t, i)) THEN SkipSpace(t, i + 1) ELSE i

\* json.loads(text): one value between optional whitespace, nothing after it
JsonLoads(t) ==
    LET v == ParseValue(t, SkipSpace(t, 1)) IN
    IF v.ok /\ SkipSpace(t, v.next) = Len(t) + 1
    THEN [ok |-> TRUE, value |-> v.node]
    ELSE [ok |-> FALSE, value |-> <<>>]

\* bytes.decode('utf-8') fails on a byte that starts no valid sequence
Utf8Ok(t) == \A i \in 1..Len(t) : t[i] < 128

-----------------------------------------------------------------------------
(* The archive file.                                                       *)

\* the outer length field, skipped by open()
OuterField == 4

\* bytes open() subtracts from the header block size
PicklePadding == 8

HeaderText(tree, pad) == Render(tree) \o Repeat(32, pad)

\* the 16 bytes in front of the header: the outer length field, the header
\* block size, eight bytes of inner envelope
Framing(block) == PackU32(4) \o PackU32(block) \o Repeat(0, 8)

ArchiveBytes(tree, pad) ==
    Framing(Len(HeaderText(tree, pad)) + PicklePadding) \o HeaderText(tree, pad) \o Blob

\* file.read(n) at cursor pos: at most n bytes, fewer at the end of the file
FileRead(data, pos, n) ==
    IF n = -1 THEN SubSeq(data, pos + 1, Len(data))
    ELSE SubSeq(data, pos + 1, Min(pos + n, Len(data)))

-----------------------------------------------------------------------------
(* The objects of a run.                                                   *)

\* the path the archive is opened from
Filename == [abs |-> TRUE, comps |-> <<"ar">>]

\* the path extract() is called with
Destination == [abs |-> TRUE, comps |-> <<"w", "out">>]

\* self.filename + '.unpacked'
UnpackedDir(filename) ==
    [filename EXCEPT !.comps[Len(filename.comps)] = @ \o ".unpacked"]

NoHandle == [live |-> FALSE]

NoFile == [state |-> "unopened", pos |-> 0, closes |-> 0]

NotDot(c) == c # "."

PlainPath(p) == ~p.abs /\ \A i \in 1..Len(p.comps) : p.comps[i] # ".."

\* where a relative path without '..' lies below a base location
Below(base, p) == base \o SelectSeq(p.comps, NotDot)

Prefixes(loc) == {SubSeq(loc, 1, k) : k \in 1..Len(loc)}

\* the sidecar directory mirroring the tree's unpacked files, as files
\* ("full") or with a directory in each file's place ("asdir")
SidecarNodes(tree, sidecar) ==
    LET base == UnpackedDir(Filename).comps
        ups  == {e \in Entries(tree.files, CurDir) :
                    IsUnpackedEntry(e) /\ PlainPath(e.path)}
        locs == {Below(base, e.path) : e \in ups}
        dirs == {base} \cup UNION {Prefixes(Front(l)) : l \in locs}
    IN  IF sidecar = "none" THEN <<>>
        ELSE IF sidecar = "empty" THEN [l \in {base} |-> DirNode]
        ELSE [l \in dirs \cup locs |->
                IF l \in dirs \/ sidecar = "asdir" THEN DirNode
                ELSE FileNode(<<83, Len(l)>>)]

DestinationNodes(dest) ==
    IF dest = "absent" THEN <<>>
    ELSE [l \in Prefixes(Destination.comps) |->
            IF l = Destination.comps /\ dest = "file" THEN FileNode(<<68>>)
            ELSE DirNode]

\* the root, a file outside both the destination and the sidecar, the
\* sidecar and the destination
InitFs(tree, sidecar, dest) ==
    (<<>> :> DirNode) @@ (<<"sec">> :> FileNode(<<7>>))
    @@ SidecarNodes(tree, sidecar) @@ DestinationNodes(dest)

Init ==
    \E tree \in Trees, pad \in 0..MaxPad,
       sidecar \in {"none", "empty", "full", "asdir"},
       dest \in {"absent", "dir", "file"} :
      LET full == ArchiveBytes(tree, pad)
          hlen == Len(HeaderText(tree, pad))
      IN  \E cut \in (0..(16 + hlen)) \cup {Len(full)} :
            /\ archive = SubSeq(full, 1, cut)
            /\ given = [hlen |-> hlen, valid |-> (cut = Len(full))]
            /\ fs = InitFs(tree, sidecar, dest)
            /\ osfile = NoFile
            /\ handle = NoHandle
            /\ pc = "start"
            /\ stack = <<>>
            /\ err = ""
            /\ errAt = CurDir
            /\ lastOp = "none"
            /\ nops = 0
            /\ pre = [fs |-> fs, handle |-> NoHandle]
            /\ written = {}
            /\ made = {}
            /\ warned = {}
            /\ reads = {}
            /\ copied = {}

-----------------------------------------------------------------------------
(* AsarArchive.open                                                        *)

\* open(filename): the outcome of parsing the framing and the header.  The
\* cursor is at 4 after seek(4), at 8 after the length field, at 16 after
\* the skipped envelope, and behind the bytes read after read(header_size)
OpenResult(data) ==
    LET field == FileRead(data, OuterField, 4) IN
    IF Len(field) # 4
    THEN [err |-> "struct.error", pos |-> OuterField + Len(field),
          files |-> <<>>, baseoffset |-> 0]
    ELSE
    LET header_size == UnpackU32(field) - PicklePadding
        start == OuterField + 4 + 8
    IN  IF header_size < -1
        THEN [err |-> "ValueError", pos |-> start, files |-> <<>>, baseoffset |-> 0]
        ELSE
        LET raw == FileRead(data, start, header_size)
            tell == start + Len(raw)
            doc == JsonLoads(raw)
        IN  IF ~Utf8Ok(raw)
            THEN [err |-> "UnicodeDecodeError", pos |-> tell,
                  files |-> <<>>, baseoffset |-> 0]
            ELSE IF ~doc.ok
            THEN [err |-> "JSONDecodeError", pos |-> tell,
                  files |-> <<>>, baseoffset |-> 0]
            ELSE [err |-> "", pos |-> tell, files |-> doc.value, baseoffset |-> tell]

\* the file object is created first; when parsing raises, nothing closes it
\* and no AsarArchive is constructed.  struct.unpack returns a 1-tuple or
\* raises, so the IndexError of line 208 is never raised
Open ==
    /\ pc = "start"
    /\ LET r == OpenResult(archive) IN
       /\ osfile' = [state |-> "open", pos |-> r.pos, closes |-> 0]
       /\ err' = r.err
       /\ IF r.err = ""
          THEN /\ handle' = [live |-> TRUE, filename |-> Filename, asarfile |-> "file",
                             files |-> r.files, baseoffset |-> r.baseoffset]
               /\ pc' = "idle"
          ELSE /\ handle' = NoHandle
               /\ pc' = "dead"
    /\ lastOp' = "open"
    /\ UNCHANGED <<archive, given, fs, stack, errAt, nops, pre,
                   written, made, warned, reads, copied>>

\* the interpreter finalizes a file object nothing refers to any more
Finalize ==
    /\ pc = "dead"
    /\ osfile.state = "open"
    /\ osfile' = [osfile EXCEPT !.state = "closed", !.closes = @ + 1]
    /\ UNCHANGED <<archive, given, fs, handle, pc, stack, err, errAt, lastOp,
                   nops, pre, written, made, warned, reads, copied>>

-----------------------------------------------------------------------------
(* AsarArchive.extract and its helpers                                     *)

Top == stack[Len(stack)]

\* __absolute_offset(offset): int(offset) + self.baseoffset
AbsoluteOffset(h, offset) == offset + h.baseoffset

\* the number of bytes __extract_file asks read() for
ReadLength(h, fileinfo) == AbsoluteOffset(h, fileinfo.size)

\* the position __extract_file seeks to
SeekPosition(h, fileinfo) == AbsoluteOffset(h, StrToInt(fileinfo.offset))

Effect(f, of, e) ==
    [fs |-> f, osfile |-> of, err |-> e, written |-> {}, warned |-> {},
     reads |-> {}, copied |-> {}]

\* __copy_extracted without the two existence checks
CopyExtractedUnchecked(f, of, h, path, dest) ==
    LET c == CopyFile(f, Join(UnpackedDir(h.filename), path), Join(dest, path)) IN
    IF c.err # "" THEN Effect(c.fs, of, c.err)
    ELSE [Effect(c.fs, of, "") EXCEPT
            !.written = {[rel |-> path, at |-> c.at]},
            !.copied = {[rel |-> path,
                         src |-> Resolve(f, Join(UnpackedDir(h.filename), path)).at,
                         data |-> c.data]}]

\* __copy_extracted(path, destination)
CopyExtracted(f, of, h, path, dest) ==
    LET unpacked_dir == UnpackedDir(h.filename)
        source_path == Join(unpacked_dir, path)
        destination_path == Join(dest, path)
    IN  IF ~PathIsDir(f, unpacked_dir)
        THEN [Effect(f, of, "") EXCEPT !.warned = {path}]
        ELSE IF ~PathExists(f, source_path)
        THEN [Effect(f, of, "") EXCEPT !.warned = {path}]
        ELSE LET c == CopyFile(f, source_path, destination_path) IN
             IF c.err # "" THEN Effect(c.fs, of, c.err)
             ELSE [Effect(c.fs, of, "") EXCEPT
                     !.written = {[rel |-> path, at |-> c.at]},
                     !.copied = {[rel |-> path, src |-> Resolve(f, source_path).at,
                                  data |-> c.data]}]

\* the packed branch of __extract_file: seek, read, write
ReadPacked(f, of, h, path, fileinfo, dest) ==
    IF h.asarfile = "None" THEN Effect(f, of, "AttributeError")
    ELSE IF of.state # "open" THEN Effect(f, of, "ValueError")
    ELSE LET pos == SeekPosition(h, fileinfo)
             n == ReadLength(h, fileinfo)
             contents == FileRead(archive, pos, n)
             of2 == [of EXCEPT !.pos = pos + Len(contents)]
             w == WriteFile(f, Join(dest, path), contents)
             rd == {[rel |-> path, pos |-> pos, n |-> n]}
         IN  IF w.err # "" THEN [Effect(w.fs, of2, w.err) EXCEPT !.reads = rd]
             ELSE [Effect(w.fs, of2, "") EXCEPT
                     !.written = {[rel |-> path, at |-> w.at]}, !.reads = rd]

\* __extract_file(path, fileinfo, destination)
ExtractFile(f, of, h, path, fileinfo, dest) ==
    IF "offset" \notin DOMAIN fileinfo
    THEN CopyExtracted(f, of, h, path, dest)
    ELSE ReadPacked(f, of, h, path, fileinfo, dest)

\* a check that refuses only an existing directory
DestinationTakenDirOnly(f, dest) == PathIsDir(f, dest)

\* the check extract() makes before it touches anything
DestinationTaken(f, dest) == PathExists(f, dest)

\* the path the children of a directory are extracted under
ItemPath(path, name) == Join(path, NamePath(name))

\* the top of __extract_directory: make sure destination/path exists
EnsureDirectory(f, dest, path) ==
    LET destination_path == Join(dest, path) IN
    IF ~PathExists(f, destination_path) THEN Makedirs(f, destination_path)
    ELSE [fs |-> f, err |-> "", new |-> {}]

Frame(path, files) ==
    [path |-> path, files |-> files, todo |-> DOMAIN files, phase |-> "enter"]

\* an exception unwinds every frame of extract()
Raise(e, path) ==
    /\ pc' = "idle"
    /\ stack' = <<>>
    /\ err' = e
    /\ errAt' = path
    /\ lastOp' = "extract"

\* extract(destination): refuse an existing destination, else start on the
\* root directory
Extract ==
    /\ pc = "idle"
    /\ nops < MaxOps
    /\ nops' = nops + 1
    /\ pre' = [fs |-> fs, handle |-> handle]
    /\ written' = {} /\ made' = {} /\ warned' = {} /\ reads' = {} /\ copied' = {}
    /\ IF DestinationTaken(fs, Destination)
       THEN Raise("OSError", CurDir)
       ELSE IF "files" \notin DOMAIN handle.files
       THEN Raise("KeyError", CurDir)
       ELSE /\ pc' = "extracting"
            /\ stack' = <<Frame(CurDir, handle.files.files)>>
            /\ err' = ""
            /\ UNCHANGED <<errAt, lastOp>>
    /\ UNCHANGED <<archive, given, fs, osfile, handle>>

\* __extract_directory, lines 68-71
EnterDirectory ==
    /\ pc = "extracting"
    /\ Top.phase = "enter"
    /\ LET m == EnsureDirectory(fs, Destination, Top.path) IN
       /\ fs' = m.fs
       /\ made' = made \cup m.new
       /\ IF m.err # "" THEN Raise(m.err, Top.path)
          ELSE /\ stack' = [stack EXCEPT ![Len(stack)].phase = "loop"]
               /\ UNCHANGED <<pc, err, errAt, lastOp>>
    /\ UNCHANGED <<archive, given, osfile, handle, nops, pre,
                   written, warned, reads, copied>>

\* __extract_directory, lines 73-85: the next item is a directory.  The
\* loop follows the dictionary's order; the model lets it take the
\* remaining items in any order
VisitDirectory ==
    /\ pc = "extracting"
    /\ Top.phase = "loop"
    /\ \E name \in Top.todo :
         /\ "files" \in DOMAIN Top.files[name]
         /\ stack' = Append([stack EXCEPT ![Len(stack)].todo = @ \ {name}],
                            Frame(ItemPath(Top.path, name), Top.files[name].files))
    /\ UNCHANGED <<archive, given, fs, osfile, handle, pc, err, errAt, lastOp,
                   nops, pre, written, made, warned, reads, copied>>

\* __extract_directory, lines 73-87: the next item is a file
VisitFile ==
    /\ pc = "extracting"
    /\ Top.phase = "loop"
    /\ \E name \in Top.todo :
         /\ "files" \notin DOMAIN Top.files[name]
         /\ LET path == ItemPath(Top.path, name)
                x == ExtractFile(fs, osfile, handle, path, Top.files[name], Destination)
            IN  /\ fs' = x.fs
                /\ osfile' = x.osfile
                /\ written' = written \cup x.written
                /\ warned' = warned \cup x.warned
                /\ reads' = reads \cup x.reads
                /\ copied' = copied \cup x.copied
                /\ IF x.err # "" THEN Raise(x.err, path)
                   ELSE /\ stack' = [stack EXCEPT ![Len(stack)].todo = @ \ {name}]
                        /\ UNCHANGED <<pc, err, errAt, lastOp>>
    /\ UNCHANGED <<archive, given, handle, nops, pre, made>>

\* __extract_directory returns when its loop is done; extract() returns
\* when the root directory's call does
LeaveDirectory ==
    /\ pc = "extracting"
    /\ Top.phase = "loop"
    /\ Top.todo = {}
    /\ stack' = Front(stack)
    /\ IF Len(stack) = 1
       THEN pc' = "idle" /\ lastOp' = "extract" /\ err' = "" /\ errAt' = CurDir
       ELSE UNCHANGED <<pc, lastOp, err, errAt>>
    /\ UNCHANGED <<archive, given, fs, osfile, handle, nops, pre,
                   written, made, warned, reads, copied>>

-----------------------------------------------------------------------------
(* AsarArchive.__exit__                                                    *)

\* __exit__ that closes the file and keeps the reference
ReleasedKept == "file"

\* what __exit__ leaves in self.asarfile after closing it
Released == "None"

Exit ==
    /\ pc = "idle"
    /\ nops < MaxOps
    /\ nops' = nops + 1
    /\ IF handle.asarfile = "None"
       THEN UNCHANGED <<osfile, handle>>
       ELSE /\ osfile' = [osfile EXCEPT !.state = "closed", !.closes = @ + 1]
            /\ handle' = [handle EXCEPT !.asarfile = Released]
    /\ lastOp' = "exit"
    /\ err' = ""
    /\ UNCHANGED <<archive, given, fs, pc, stack, errAt, pre,
                   written, made, warned, reads, copied>>

-----------------------------------------------------------------------------

Next ==
    \/ Open
    \/ Finalize
    \/ Extract
    \/ EnterDirectory
    \/ VisitDirectory
    \/ VisitFile
    \/ LeaveDirectory
    \/ Exit

Spec == Init /\ [][Next]_vars

-----------------------------------------------------------------------------
(* Vocabulary of the properties.                                           *)

\* the nodes of the parsed header, the root's children first
HeaderEntries ==
    IF handle.live /\ "files" \in DOMAIN handle.files
    THEN Entries(handle.files.files, CurDir) ELSE {}

\* the last call of extract() got past the destination check
Began == pre.handle.live /\ ~PathExists(pre.fs, Destination)

\* ... and has returned or raised, and nothing was called since
Returned == Began /\ pc = "idle" /\ lastOp = "extract"

Succeeded == Returned /\ err = ""

\* where destination/<relative path> lies now
DestLoc(p) == Resolve(fs, Join(Destination, p)).at

SidecarPath(p) == Join(UnpackedDir(Filename), p)

\* the sidecar directory is missing or lacks the path
SidecarMissing(f, p) ==
    ~PathIsDir(f, UnpackedDir(Filename)) \/ ~PathExists(f, SidecarPath(p))

\* the sidecar holds a regular file at the path
SidecarFile(f, p) ==
    /\ PathIsDir(f, UnpackedDir(Filename))
    /\ PathExists(f, SidecarPath(p))
    /\ IsFileAt(f, Resolve(f, SidecarPath(p)).at)

WrittenRels == {w.rel : w \in written}

\* the header size the length field declares
DeclaredHeaderSize == UnpackU32(SubSeq(archive, 5, 8)) - PicklePadding

-----------------------------------------------------------------------------
(* C1 *)

\* C1: for a valid archive, every packed file entry (offset o, size s) is
\* read by seeking to o + base offset, base offset = 16 + header_size, and
\* reading s bytes, and the file written holds bytes
\* [16+header_size+o, 16+header_size+o+s) of the archive.
C1_PackedBytesExact ==
    (given.valid /\ handle.live) =>
        /\ handle.baseoffset = 16 + given.hlen
        /\ \A e \in HeaderEntries : IsPackedEntry(e) =>
             LET o == StrToInt(e.node.offset)
                 first == 16 + given.hlen + o
             IN  /\ \A r \in reads : r.rel = e.path =>
                        r.pos = first /\ r.n = e.node.size
                 /\ \A w \in written : w.rel = e.path =>
                        fs[w.at].data = SubSeq(archive, first + 1, first + e.node.size)

-----------------------------------------------------------------------------
(* C2 *)

-----------------------------------------------------------------------------
(* C3 *)

\* C3: a file entry without an offset whose sidecar directory is missing or
\* lacks the entry's path leaves no file at destination/<path> and raises no
\* error; when extract returns without error every such entry was skipped
\* with a warning and every other file entry was written.
C3_MissingSidecarSkipped ==
    Began =>
      LET missing == {e \in HeaderEntries :
                        IsUnpackedEntry(e) /\ SidecarMissing(pre.fs, e.path)}
      IN  /\ \A e \in missing :
                /\ e.path \notin WrittenRels
                /\ ~PathExists(fs, Join(Destination, e.path))
                /\ ~(lastOp = "extract" /\ err # "" /\ errAt = e.path)
          /\ \A p \in warned : \E e \in missing : e.path = p
          /\ Succeeded =>
                /\ \A e \in missing : e.path \in warned
                /\ \A e \in HeaderEntries :
                      (~IsDirEntry(e) /\ e \notin missing) => e.path \in WrittenRels

C3_Witness ==
    /\ Succeeded
    /\ \E e \in HeaderEntries : IsUnpackedEntry(e) /\ e.path \in warned
    /\ \E e \in HeaderEntries : IsPackedEntry(e) /\ e.path \in WrittenRels
    /\ PathIsDir(pre.fs, UnpackedDir(Filename))

-----------------------------------------------------------------------------
(* C4 *)

\* C4: a file entry without an offset whose sidecar file exists is copied:
\* destination/<path> holds exactly the sidecar file's bytes, the archive
\* is not read for the entry, and the sidecar file is unchanged.
C4_SidecarCopiedVerbatim ==
    Began =>
      /\ \A c \in copied :
            /\ \E w \in written :
                 /\ w.rel = c.rel
                 /\ IsFileAt(fs, w.at)
                 /\ fs[w.at].data = pre.fs[c.src].data
                 /\ w.at = DestLoc(c.rel)
            /\ fs[c.src] = pre.fs[c.src]
      /\ \A e \in HeaderEntries : IsUnpackedEntry(e) =>
            /\ \A r \in reads : r.rel # e.path
            /\ (Succeeded /\ SidecarFile(pre.fs, e.path)) =>
                  \E c \in copied : c.rel = e.path

C4_Witness ==
    /\ Succeeded
    /\ \E c \in copied : Len(fs[DestLoc(c.rel)].data) > 0

-----------------------------------------------------------------------------
(* C5 *)

\* C5: the read handle is closed at most once; a release after the first
\* changes nothing and raises nothing; an extract after a release that
\* comes to a packed file raises an error and writes no packed file.
C5_ReleasedOnce ==
    /\ osfile.closes <= 1
    /\ (handle.live /\ handle.asarfile = "None") => osfile.state = "closed"
    /\ (pc = "idle" /\ lastOp = "exit") =>
          err = "" /\ osfile.state = "closed" /\ handle.asarfile = "None"
    /\ (Began /\ pre.handle.asarfile = "None") =>
          /\ reads = {}
          /\ \A e \in HeaderEntries : IsPackedEntry(e) => e.path \notin WrittenRels
          /\ (Returned /\ \E e \in HeaderEntries : IsPackedEntry(e)) => err # ""

C5_Witness ==
    /\ Returned /\ pre.handle.asarfile = "None" /\ err = "AttributeError"
    /\ nops = 3 /\ osfile.closes = 1

-----------------------------------------------------------------------------
(* C6 *)

\* C6: open() returns no handle for an archive that holds fewer than
\* header_size bytes after byte 16.
C6_TruncatedHeaderRejected ==
    handle.live => Len(archive) - 16 >= DeclaredHeaderSize

-----------------------------------------------------------------------------
(* C7 *)

\* C7: after a successful extract every interior node of the header, at
\* every depth, is a directory at destination/<path>, an empty child mapping
\* gives an empty directory, and nothing lies under the destination that the
\* header does not name.
C7_DirectoriesRecreated ==
    Succeeded =>
      LET named == {DestLoc(e.path) : e \in HeaderEntries} IN
      /\ PathIsDir(fs, Destination)
      /\ \A e \in HeaderEntries : IsDirEntry(e) =>
            /\ PathIsDir(fs, Join(Destination, e.path))
            /\ e.node.files = <<>> =>
                 \A l \in DOMAIN fs : ~(Len(l) > 0 /\ Front(l) = DestLoc(e.path))
      /\ \A l \in DOMAIN fs :
            (IsPrefix(Destination.comps, l) /\ l # Destination.comps) =>
                \E n \in named : IsPrefix(l, n)

-----------------------------------------------------------------------------
(* C8 *)

\* C8: whenever extract is about to handle the entries of the directory at
\* relative path P, and so before any file is written at destination/P/name,
\* destination/P exists as a directory.
C8_DirectoryBeforeFiles ==
    (pc = "extracting" /\ Top.phase = "loop") =>
        PathIsDir(fs, Join(Destination, Top.path))

-----------------------------------------------------------------------------
(* C9 *)

\* C9: no state has an open read handle that no Archive Handle owns, and
\* the read handle is closed at most once.
C9_NoUnownedOpenHandle ==
    /\ osfile.state = "open" => (handle.live /\ handle.asarfile = "file")
    /\ osfile.closes <= 1

-----------------------------------------------------------------------------
(* C10 *)

\* C10: every directory created and every file written by extract lies
\* inside the destination (or is the destination or one of its missing
\* parents), and every sidecar file read lies inside the sidecar directory.
C10_StaysInsideDestination ==
    /\ \A w \in written : IsPrefix(Destination.comps, w.at)
    /\ \A m \in made :
          IsPrefix(Destination.comps, m) \/ IsPrefix(m, Destination.comps)
    /\ \A c \in copied : IsPrefix(UnpackedDir(Filename).comps, c.src)

-----------------------------------------------------------------------------
(* C7, C8 and C10 on headers none of whose names is '..' or absolute.       *)

NoEscapingName == \A e \in HeaderEntries : PlainPath(e.path)

\* C7 for headers without '..' and absolute names
C7_WithoutEscapingNames == NoEscapingName => C7_DirectoriesRecreated

\* C8 for headers without '..' and absolute names
C8_WithoutEscapingNames == NoEscapingName => C8_DirectoryBeforeFiles

\* C10 for headers without '..' and absolute names
C10_WithoutEscapingNames == NoEscapingName => C10_StaysInsideDestination

====
